---- MODULE Spec2Model ----
(***************************************************************************)
(* Model of the invoice auditor: the Registry Client (CvrManager) with its *)
(* time-bounded cache, the risk classification of a registry payload, the  *)
(* tax rule table (VatManager), the Invoice data model, the reconciliation *)
(* steps and the two audit pipelines (core/auditor.py Auditor.run_audit    *)
(* and invoice_auditor/agent/auditor.py run_audit).  Specifications: Spec  *)
(* (audits one after another), SpecCvr (one registry client), SpecRisk     *)
(* (risk classification), SpecVat (the rule table), SpecSteps (the steps   *)
(* on their own) and SpecConc (two audits at once).                        *)
(*                                                                         *)
(* Python strings whose characters matter (identifiers, descriptions,      *)
(* payload text) are sequences of one-character strings.  Fixed message    *)
(* texts are pairs <<text, argument>>.  Money is an integer count of       *)
(* 1/10000 currency units and a rate is an integer percentage.  Time is a  *)
(* whole number of days.                                                   *)
(***************************************************************************)
EXTENDS Integers, Sequences, FiniteSets, TLC

VARIABLES
    now,        \* datetime.now(), in days
    cache,      \* CvrManager.cache: normalized id -> [last_checked, data]
    disk,       \* contents of CACHE_FILE
    result,     \* the dict returned by the latest validate_cvr / _analyze_risk
    lastCall,   \* what the latest validate_cvr did: key, entry seen, request made
    stored,     \* normalized id -> the verdict the latest status 200 answer stored
    api_data,   \* the payload handed to _analyze_risk
    pc,         \* position of the audit in run_audit
    pipeline,   \* which run_audit is running: "legacy" or "agent"
    invoice,    \* the Invoice being audited
    exc,        \* the exception run_audit raised, "None" if none
    rules,      \* VatManager.rules
    lookup_file,\* LOOKUP_FILE: << >> if there is no file, else <<its content>>
    vatCall,    \* the latest VatManager call: what it was given and returned
    parked      \* CvrManager.cache of the audit that is not running now

vars == <<now, cache, disk, result, lastCall, stored, api_data, pc, pipeline, invoice, exc, rules,
         lookup_file, vatCall, parked>>

regVars == <<now, cache, disk, result, lastCall, stored>>
auditVars == <<pc, pipeline, invoice, exc>>

-----------------------------------------------------------------------------
(* Bounds *)

MaxTime == 8
MaxItems == 2
MaxRules == 3
MaxSteps == 2

-----------------------------------------------------------------------------
(* Python values *)

\* Python's None: a one-element sequence whose element is no character, so
\* that it differs from every string, the empty string included.
None == <<"<None>">>

\* bool(v) for a value that is None or a string
Truthy(v) == v # None /\ v # << >>

\* d.get(k, default) for a dict d
Get(d, k, default) == IF k \in DOMAIN d THEN d[k] ELSE default

\* d[k] = v for a dict d
DictSet(d, k, v) == (k :> v) @@ d

ToLower ==
    ("A" :> "a") @@ ("B" :> "b") @@ ("C" :> "c") @@ ("D" :> "d") @@ ("E" :> "e") @@
    ("F" :> "f") @@ ("G" :> "g") @@ ("H" :> "h") @@ ("I" :> "i") @@ ("J" :> "j") @@
    ("K" :> "k") @@ ("L" :> "l") @@ ("M" :> "m") @@ ("N" :> "n") @@ ("O" :> "o") @@
    ("P" :> "p") @@ ("Q" :> "q") @@ ("R" :> "r") @@ ("S" :> "s") @@ ("T" :> "t") @@
    ("U" :> "u") @@ ("V" :> "v") @@ ("W" :> "w") @@ ("X" :> "x") @@ ("Y" :> "y") @@
    ("Z" :> "z") @@ ("Æ" :> "æ") @@ ("Ø" :> "ø") @@ ("Å" :> "å")

\* str.lower()
Lower(s) == [i \in 1..Len(s) |-> IF s[i] \in DOMAIN ToLower THEN ToLower[s[i]] ELSE s[i]]

ToUpper ==
    ("a" :> "A") @@ ("b" :> "B") @@ ("c" :> "C") @@ ("d" :> "D") @@ ("e" :> "E") @@
    ("f" :> "F") @@ ("g" :> "G") @@ ("h" :> "H") @@ ("i" :> "I") @@ ("j" :> "J") @@
    ("k" :> "K") @@ ("l" :> "L") @@ ("m" :> "M") @@ ("n" :> "N") @@ ("o" :> "O") @@
    ("p" :> "P") @@ ("q" :> "Q") @@ ("r" :> "R") @@ ("s" :> "S") @@ ("t" :> "T") @@
    ("u" :> "U") @@ ("v" :> "V") @@ ("w" :> "W") @@ ("x" :> "X") @@ ("y" :> "Y") @@
    ("z" :> "Z") @@ ("æ" :> "Æ") @@ ("ø" :> "Ø") @@ ("å" :> "Å")

\* str.upper()
Upper(s) == [i \in 1..Len(s) |-> IF s[i] \in DOMAIN ToUpper THEN ToUpper[s[i]] ELSE s[i]]

\* needle in hay, for strings
Contains(needle, hay) ==
    \E i \in 1..(Len(hay) - Len(needle) + 1) : SubSeq(hay, i, i + Len(needle) - 1) = needle

Whitespace == {" "}

RECURSIVE LStrip(_)
LStrip(s) == IF s # << >> /\ Head(s) \in Whitespace THEN LStrip(Tail(s)) ELSE s

RECURSIVE RStrip(_)
RStrip(s) ==
    IF s # << >> /\ s[Len(s)] \in Whitespace THEN RStrip(SubSeq(s, 1, Len(s) - 1)) ELSE s

\* str.strip()
Strip(s) == RStrip(LStrip(s))

\* str.replace("DK", "")
RECURSIVE ReplaceDK(_)
ReplaceDK(s) ==
    IF Len(s) >= 2 /\ s[1] = "D" /\ s[2] = "K" THEN ReplaceDK(SubSeq(s, 3, Len(s)))
    ELSE IF s = << >> THEN << >>
    ELSE <<Head(s)>> \o ReplaceDK(Tail(s))

-----------------------------------------------------------------------------
(* Registry payloads and risk classification (CvrManager._analyze_risk) *)

K_name == <<"n", "a", "m", "e">>
K_enddate == <<"e", "n", "d", "d", "a", "t", "e">>
K_status == <<"s", "t", "a", "t", "u", "s">>

S_konkurs == <<"k", "o", "n", "k", "u", "r", "s">>
S_tvangsoploesning ==
    <<"t", "v", "a", "n", "g", "s", "o", "p", "l", "ø", "s", "n", "i", "n", "g">>

\* A payload is the parsed JSON object: a sequence of <<key, value>> pairs in
\* document order, every value a string or None.
RECURSIVE PayloadGet(_, _)
PayloadGet(d, k) ==
    IF d = << >> THEN None
    ELSE IF d[Len(d)][1] = k THEN d[Len(d)][2]
    ELSE PayloadGet(SubSeq(d, 1, Len(d) - 1), k)

\* repr() of a string or None
Repr(v) == IF v = None THEN <<"N", "o", "n", "e">> ELSE <<"'">> \o v \o <<"'">>

RECURSIVE ReprItems(_)
ReprItems(d) ==
    IF d = << >> THEN << >>
    ELSE Repr(d[1][1]) \o <<":", " ">> \o Repr(d[1][2])
         \o (IF Len(d) > 1 THEN <<",", " ">> ELSE << >>) \o ReprItems(Tail(d))

\* str(api_data)
StrDict(d) == <<"{">> \o ReprItems(d) \o <<"}">>

MsgActive == <<"Company is active and valid.", << >> >>
MsgDissolved(enddate) == <<"Company Dissolved (Ophørt) on ", enddate>>
MsgBankrupt == <<"WARNING: Company is Bankrupt (Under Konkurs).", << >> >>
MsgForced == <<"WARNING: Forced Dissolution (Tvangsopløsning).", << >> >>

\* mutant: the token scan runs before the end-date check
analyze_risk_scan_first(data) ==
    LET default == [valid |-> TRUE,
                    company_name |-> PayloadGet(data, K_name),
                    risk_level |-> "Low",
                    message |-> MsgActive]
        status_text == Lower(StrDict(data))
    IN  IF Contains(S_konkurs, status_text)
        THEN [default EXCEPT !.valid = FALSE, !.risk_level = "Critical",
                             !.message = MsgBankrupt]
        ELSE IF Contains(S_tvangsoploesning, status_text)
        THEN [default EXCEPT !.valid = FALSE, !.risk_level = "Critical",
                             !.message = MsgForced]
        ELSE IF Truthy(PayloadGet(data, K_enddate))
        THEN [default EXCEPT !.valid = FALSE, !.risk_level = "High",
                             !.message = MsgDissolved(PayloadGet(data, K_enddate))]
        ELSE default

_analyze_risk(data) ==
    LET default == [valid |-> TRUE,
                    company_name |-> PayloadGet(data, K_name),
                    risk_level |-> "Low",
                    message |-> MsgActive]
        status_text == Lower(StrDict(data))
    IN  IF Truthy(PayloadGet(data, K_enddate))
        THEN [default EXCEPT !.valid = FALSE, !.risk_level = "High",
                             !.message = MsgDissolved(PayloadGet(data, K_enddate))]
        ELSE IF Contains(S_konkurs, status_text)
        THEN [default EXCEPT !.valid = FALSE, !.risk_level = "Critical",
                             !.message = MsgBankrupt]
        ELSE IF Contains(S_tvangsoploesning, status_text)
        THEN [default EXCEPT !.valid = FALSE, !.risk_level = "Critical",
                             !.message = MsgForced]
        ELSE default

-----------------------------------------------------------------------------
(* Sample strings *)

Id1 == <<"1", "2", "3", "4", "5", "6", "7", "8">>
Id2 == <<"8", "7", "6", "5", "4", "3", "2", "1">>
N_lego == <<"L", "e", "g", "o">>
N_konkursbo == <<"K", "O", "N", "K", "U", "R", "S", "B", "O">>
D_2019 == <<"2", "0", "1", "9">>
T_normal == <<"N", "O", "R", "M", "A", "L">>
T_underKonkurs == <<"U", "n", "d", "e", "r", " ", "K", "o", "n", "k", "u", "r", "s">>
T_tvang == <<"T", "V", "A", "N", "G", "S", "O", "P", "L", "Ø", "S", "N", "I", "N", "G">>
T_both == S_tvangsoploesning \o <<" ">> \o S_konkurs

\* a key the JSON object does not have
Absent == <<"<absent>">>

Field(k, v) == IF v = Absent THEN << >> ELSE << <<k, v>> >>

Payload(name, enddate, status) ==
    Field(K_name, name) \o Field(K_enddate, enddate) \o Field(K_status, status)

\* the payloads risk classification is exercised on
Payloads ==
    { Payload(n, e, t) : n \in {None, N_lego, N_konkursbo},
                         e \in {Absent, None, << >>, D_2019},
                         t \in {Absent, T_normal, S_konkurs, T_underKonkurs, T_tvang, T_both} }

\* the payloads the registry answers with in the client and audit models
RegistryPayloads ==
    { Payload(N_lego, Absent, Absent),
      Payload(N_lego, D_2019, T_underKonkurs),
      Payload(N_lego, Absent, T_underKonkurs) }

-----------------------------------------------------------------------------
(* Registry Client (CvrManager.validate_cvr) *)

\* timedelta(days=7)
TTL == 7

\* datetime.isoformat() and datetime.fromisoformat()
IsoFormat(t) == <<"iso", t>>
FromIsoFormat(s) == s[2]

\* what client.get / response.json() can give: an exception (timeout,
\* connection error), or a status with a body that is a JSON object or not
Responses ==
    { [kind |-> "exception", status_code |-> 0, json_ok |-> FALSE, json |-> << >>] }
    \cup { [kind |-> "http", status_code |-> 200, json_ok |-> TRUE, json |-> p] :
             p \in RegistryPayloads }
    \cup { [kind |-> "http", status_code |-> s, json_ok |-> FALSE, json |-> << >>] :
             s \in {200, 404, 500} }

\* the try block raises: client.get raised, or response.json() did
Raises(response) ==
    \/ response.kind = "exception"
    \/ response.status_code = 200 /\ ~response.json_ok

ExcText == <<"t", "i", "m", "e", "o", "u", "t">>
OfflineWarning == <<"Offline Mode: Using cached data > 7 days old.", << >> >>
NotFoundReport ==
    [valid |-> FALSE, risk_level |-> "High",
     message |-> <<"CVR number not found in registry.", << >> >>]
ApiErrorReport ==
    [valid |-> FALSE, risk_level |-> "Unknown", message |-> <<"API Error: ", ExcText>>]
UnknownErrorReport ==
    [valid |-> FALSE, risk_level |-> "High", message |-> <<"Unknown error.", << >> >>]

NoResult == [returned |-> FALSE]
NoCall == [key |-> << >>, had |-> FALSE, age |-> -1, net |-> 0, outcome |-> "none"]

\* cvr_clean = str(cvr_number).strip().replace("DK", "")
Clean(cvr_number) == ReplaceDK(Strip(cvr_number))

\* mutant: the comparison of the freshness test is turned round
FreshReversed(cached_data) == now - FromIsoFormat(cached_data.last_checked) > TTL

\* mutant: the freshness test is not strict
FreshInclusive(cached_data) == now - FromIsoFormat(cached_data.last_checked) <= TTL

\* datetime.now() - last_checked < timedelta(days=7)
Fresh(cached_data) == now - FromIsoFormat(cached_data.last_checked) < TTL

\* the cache-hit test of validate_cvr: an entry exists and is fresh
CacheHit(cvr_clean) == cvr_clean \in DOMAIN cache /\ Fresh(cache[cvr_clean])

\* mutant: the except branch forgets the stale entry
DegradedNoFallback(cvr_clean) ==
    /\ result' = ApiErrorReport
    /\ UNCHANGED <<cache, disk, stored>>

\* the except branch: stale entry with a warning, or the API error report
Degraded(cvr_clean) ==
    IF cvr_clean \in DOMAIN cache
    THEN /\ cache' = [cache EXCEPT ![cvr_clean].data = DictSet(@, "warning", OfflineWarning)]
         /\ result' = cache'[cvr_clean].data
         /\ UNCHANGED <<disk, stored>>
    ELSE /\ result' = ApiErrorReport
         /\ UNCHANGED <<cache, disk, stored>>

\* the status 200 branch: classify, store, save
Store(cvr_clean, raw_data) ==
    LET analyzed_data == _analyze_risk(raw_data)
    IN  /\ cache' = DictSet(cache, cvr_clean,
                            [last_checked |-> IsoFormat(now), data |-> analyzed_data])
        /\ disk' = cache'
        /\ stored' = DictSet(stored, cvr_clean, analyzed_data)
        /\ result' = analyzed_data

\* mutant: the not-found report is cached like a verdict
NotFoundCached(cvr_clean) ==
    /\ result' = NotFoundReport
    /\ cache' = DictSet(cache, cvr_clean,
                        [last_checked |-> IsoFormat(now), data |-> NotFoundReport])
    /\ disk' = cache'
    /\ UNCHANGED stored

\* the status 404 branch
NotFound(cvr_clean) ==
    /\ result' = NotFoundReport
    /\ UNCHANGED <<cache, disk, stored>>

\* a status that is neither 200 nor 404 falls through to the last return
FallThrough(cvr_clean) ==
    /\ result' = UnknownErrorReport
    /\ UNCHANGED <<cache, disk, stored>>

Outcome(response) ==
    IF Raises(response) THEN "exception"
    ELSE IF response.status_code = 200 THEN "200"
    ELSE IF response.status_code = 404 THEN "404"
    ELSE "other"

\* age of the entry the call finds, -1 when there is none
Age(cvr_clean) ==
    IF cvr_clean \in DOMAIN cache
    THEN now - FromIsoFormat(cache[cvr_clean].last_checked)
    ELSE -1

validate_cvr(cvr_number, response) ==
    LET cvr_clean == Clean(cvr_number)
        had == cvr_clean \in DOMAIN cache
    IN  IF CacheHit(cvr_clean)
        THEN /\ result' = cache[cvr_clean].data
             /\ lastCall' = [key |-> cvr_clean, had |-> had, age |-> Age(cvr_clean),
                             net |-> 0, outcome |-> "hit"]
             /\ UNCHANGED <<cache, disk, stored>>
        ELSE /\ lastCall' = [key |-> cvr_clean, had |-> had, age |-> Age(cvr_clean),
                             net |-> 1, outcome |-> Outcome(response)]
             /\ IF Raises(response) THEN Degraded(cvr_clean)
                ELSE IF response.status_code = 200 THEN Store(cvr_clean, response.json)
                ELSE IF response.status_code = 404 THEN NotFound(cvr_clean)
                ELSE FallThrough(cvr_clean)

\* CvrManager.__init__: load the cache file
_load_cache == disk

-----------------------------------------------------------------------------
(* Tax rule table (VatManager) *)

R_pant == <<"P", "A", "N", "T">>
R_avis == <<"A", "V", "I", "S">>

\* a rule file in the shape _load_rules reads: ordered keyword rules and the
\* default rule
ConfiguredRules ==
    [exempt_keywords |->
        << [keyword |-> R_pant, vat_rate |-> 0, category |-> "Exempt",
            reason |-> "Bottle deposit"],
           [keyword |-> R_avis, vat_rate |-> 0, category |-> "Reduced (0%)",
            reason |-> "Newspaper"] >>,
     standard_defaults |-> [vat_rate |-> 25, category |-> "Standard (25%)"]]

\* the rule table _load_rules falls back to when there is no file
FallbackRules ==
    [exempt_keywords |-> << >>, standard_defaults |-> [vat_rate |-> 25]]

\* VatManager._load_rules: the content of the file as it is, no normalisation
_load_rules(file) == IF file = << >> THEN FallbackRules ELSE file[1]

\* rule files as they may be written by hand: a keyword in mixed case, and
\* overlapping keywords with defaults of their own
R_Pant == <<"P", "a", "n", "t">>
R_an == <<"A", "N">>

MixedCaseRules ==
    [exempt_keywords |->
        << [keyword |-> R_Pant, vat_rate |-> 0, category |-> "Exempt",
            reason |-> "Bottle deposit"] >>,
     standard_defaults |-> [vat_rate |-> 25, category |-> "Standard (25%)"]]

OverlapRules ==
    [exempt_keywords |->
        << [keyword |-> R_an, vat_rate |-> 12, category |-> "Reduced (0%)",
            reason |-> "Animal feed"],
           [keyword |-> R_pant, vat_rate |-> 0, category |-> "Exempt",
            reason |-> "Bottle deposit"] >>,
     standard_defaults |-> [vat_rate |-> 20, category |-> "Standard (20%)"]]

LookupFiles == {<< >>, <<ConfiguredRules>>, <<MixedCaseRules>>, <<OverlapRules>>}

\* mutant: the last matching rule wins
RECURSIVE LastMatch(_, _)
LastMatch(rs, desc_upper) ==
    IF rs = << >> THEN << >>
    ELSE IF Contains(rs[Len(rs)].keyword, desc_upper) THEN <<rs[Len(rs)]>>
    ELSE LastMatch(SubSeq(rs, 1, Len(rs) - 1), desc_upper)

\* the for loop of lookup_item: the first rule whose keyword, as stored, is
\* in the upper-cased description
RECURSIVE FirstMatch(_, _)
FirstMatch(rs, desc_upper) ==
    IF rs = << >> THEN << >>
    ELSE IF Contains(Head(rs).keyword, desc_upper) THEN <<Head(rs)>>
    ELSE FirstMatch(Tail(rs), desc_upper)

\* VatManager.lookup_item: (vat_rate, category, reason)
lookup_item(description) ==
    LET desc_upper == Upper(description)
        hit == FirstMatch(Get(rules, "exempt_keywords", << >>), desc_upper)
        defaults == Get(rules, "standard_defaults", << >>)
    IN  IF hit # << >>
        THEN [vat_rate |-> hit[1].vat_rate, category |-> hit[1].category,
              reason |-> hit[1].reason]
        ELSE [vat_rate |-> Get(defaults, "vat_rate", 25),
              category |-> Get(defaults, "category", "Standard (25%)"),
              reason |-> "Standard Rate"]

NoVatCall ==
    [op |-> "none", arg |-> << >>,
     rule |-> [vat_rate |-> 0, category |-> "", reason |-> ""],
     added |-> FALSE, saved |-> FALSE]

\* the keywords of the table, as stored
ExistingKeywords == { rules.exempt_keywords[i].keyword : i \in 1..Len(rules.exempt_keywords) }

\* VatManager.add_custom_rule, with _save_rules on a successful add
add_custom_rule(keyword, vat_rate, category) ==
    LET new_rule == [keyword |-> Upper(keyword), vat_rate |-> vat_rate,
                     category |-> category, reason |-> "User Custom Rule"]
    IN  IF new_rule.keyword \notin ExistingKeywords
        THEN /\ rules' = [rules EXCEPT !.exempt_keywords = Append(@, new_rule)]
             /\ lookup_file' = <<rules'>>
             /\ vatCall' = [op |-> "add_custom_rule", arg |-> keyword,
                            rule |-> [vat_rate |-> vat_rate, category |-> category,
                                      reason |-> "User Custom Rule"],
                            added |-> TRUE, saved |-> TRUE]
        ELSE /\ rules' = rules
             /\ lookup_file' = lookup_file
             /\ vatCall' = [op |-> "add_custom_rule", arg |-> keyword,
                            rule |-> [vat_rate |-> vat_rate, category |-> category,
                                      reason |-> "User Custom Rule"],
                            added |-> FALSE, saved |-> FALSE]

-----------------------------------------------------------------------------
(* Data model (schema.py) *)

FlagCategories == {"Compliance", "Forex", "Anomaly", "Data Integrity"}
FlagSeverities == {"Low", "Medium", "High"}

\* AuditFlag(...) validates: category and severity are Literal types
FlagValid(category, severity) ==
    category \in FlagCategories /\ severity \in FlagSeverities

AuditFlag(category, severity, message) ==
    [category |-> category, severity |-> severity, message |-> message,
     is_resolved |-> FALSE]

\* mutant: the new flag is put in front of the list
add_flag_front(inv, category, severity, message) ==
    [inv EXCEPT !.audit_flags = <<AuditFlag(category, severity, message)>> \o @]

\* Invoice.add_flag, for a flag that validates
add_flag(inv, category, severity, message) ==
    [inv EXCEPT !.audit_flags = Append(@, AuditFlag(category, severity, message))]

\* str.isdigit() over the characters of the model: the ASCII digits and the
\* other characters Unicode classes as digits, here SUPERSCRIPT TWO
Digits == {"0", "1", "2", "3", "4", "5", "6", "7", "8", "9", "²"}
IsDigit(v) == v # << >> /\ \A i \in 1..Len(v) : v[i] \in Digits

\* Invoice.validate_cvr: the field validator of vendor_cvr accepts v
CvrAccepted(v) == ~(Truthy(v) /\ (Len(v) # 8 \/ ~IsDigit(v)))

-----------------------------------------------------------------------------
(* Reconciliation steps *)

Abs(x) == IF x < 0 THEN 0 - x ELSE x

\* 0.05 currency units
VatTolerance == 500

\* the tax component of one line: total * rate, or total / (1 + rate) * rate
\* where the step looks at prices_include_vat
TaxComponent(item, inclusive) ==
    IF inclusive
    THEN (item.total_price * item.vat_rate) \div (100 + item.vat_rate)
    ELSE (item.total_price * item.vat_rate) \div 100

\* mutant: a mismatching line has its claimed rate replaced by the rule's
RECURSIVE VatLoopOverwrite(_, _, _, _)
VatLoopOverwrite(inv, i, calculated_vat, honours_mode) ==
    IF i > Len(inv.line_items)
    THEN [inv |-> inv, calculated_vat |-> calculated_vat, raised |-> FALSE]
    ELSE LET item == inv.line_items[i]
             rule == lookup_item(item.description)
             flagged ==
                 IF item.vat_rate # rule.vat_rate
                 THEN add_flag([inv EXCEPT !.line_items[i].vat_rate = rule.vat_rate],
                               "Data Integrity", "Medium",
                               <<"VAT Mismatch", <<item.description, item.vat_rate,
                                                   rule.reason, rule.vat_rate>> >>)
                 ELSE inv
             inclusive == honours_mode /\ inv.prices_include_vat
         IN  IF inclusive /\ 100 + item.vat_rate = 0
             THEN [inv |-> flagged, calculated_vat |-> calculated_vat, raised |-> TRUE]
             ELSE VatLoopOverwrite(flagged, i + 1,
                                   calculated_vat + TaxComponent(item, inclusive),
                                   honours_mode)

\* the for loop over invoice.line_items.  Where the step looks at
\* prices_include_vat, a line with vat_rate -1.0 makes 1 + item.vat_rate zero
\* and the division raises ZeroDivisionError, after the line's mismatch flag.
RECURSIVE VatLoop(_, _, _, _)
VatLoop(inv, i, calculated_vat, honours_mode) ==
    IF i > Len(inv.line_items)
    THEN [inv |-> inv, calculated_vat |-> calculated_vat, raised |-> FALSE]
    ELSE LET item == inv.line_items[i]
             rule == lookup_item(item.description)
             flagged ==
                 IF item.vat_rate # rule.vat_rate
                 THEN add_flag(inv, "Data Integrity", "Medium",
                               <<"VAT Mismatch", <<item.description, item.vat_rate,
                                                   rule.reason, rule.vat_rate>> >>)
                 ELSE inv
             inclusive == honours_mode /\ inv.prices_include_vat
         IN  IF inclusive /\ 100 + item.vat_rate = 0
             THEN [inv |-> flagged, calculated_vat |-> calculated_vat, raised |-> TRUE]
             ELSE VatLoop(flagged, i + 1,
                          calculated_vat + TaxComponent(item, inclusive),
                          honours_mode)

\* amounts in the message are formatted with :.2f
Round2(x) == (x + 50) \div 100

\* the step raises instead of returning
VatRaises(inv, honours_mode) == VatLoop(inv, 1, 0, honours_mode).raised

\* mutant: a difference of exactly the tolerance is flagged too
VatCheckInclusive(inv, honours_mode) ==
    LET loop == VatLoop(inv, 1, 0, honours_mode)
    IN  IF ~loop.raised /\ Abs(loop.calculated_vat - inv.total_vat_raw) >= VatTolerance
        THEN add_flag(loop.inv, "Data Integrity", "High",
                      <<"Math Error", <<Round2(loop.calculated_vat),
                                        Round2(inv.total_vat_raw), "VAT">> >>)
        ELSE loop.inv

\* the invoice as the step leaves it
VatCheck(inv, honours_mode) ==
    LET loop == VatLoop(inv, 1, 0, honours_mode)
    IN  IF ~loop.raised /\ Abs(loop.calculated_vat - inv.total_vat_raw) > VatTolerance
        THEN add_flag(loop.inv, "Data Integrity", "High",
                      <<"Math Error", <<Round2(loop.calculated_vat),
                                        Round2(inv.total_vat_raw), "VAT">> >>)
        ELSE loop.inv

\* verify_vat_math of processing/post_audit.py: a line is
\* total / (1 + rate) * rate when prices_include_vat, else total * rate
verify_vat_math_post_audit(inv) == VatCheck(inv, TRUE)

\* Auditor._audit_vat_logic (core/auditor.py): every line is total * rate
_audit_vat_logic(inv) == VatCheck(inv, FALSE)

\* verify_vat_math as run_audit of agent/auditor.py calls it: the function of
\* that module, in which every line is total * rate
verify_vat_math(inv) == VatCheck(inv, FALSE)

\* Auditor._audit_currency
_audit_currency(inv) ==
    IF inv.currency # "DKK"
    THEN add_flag([inv EXCEPT !.total_amount_dkk =
                                  (inv.total_amount_raw * inv.exchange_rate_used) \div 100],
                  "Forex", "Low",
                  <<"Converted from", <<inv.exchange_rate_used, inv.currency>> >>)
    ELSE [inv EXCEPT !.total_amount_dkk = inv.total_amount_raw]

\* mutant: the total is converted and no flag records it
handle_currency_silent(inv) ==
    IF inv.currency # "DKK"
    THEN [inv EXCEPT !.total_amount_dkk =
                         (inv.total_amount_raw * inv.exchange_rate_used) \div 100]
    ELSE [inv EXCEPT !.total_amount_dkk = inv.total_amount_raw]

\* handle_currency
handle_currency(inv) ==
    IF inv.currency # "DKK"
    THEN add_flag([inv EXCEPT !.total_amount_dkk =
                                  (inv.total_amount_raw * inv.exchange_rate_used) \div 100],
                  "Forex", "Low",
                  <<"Converted from", <<inv.exchange_rate_used, inv.currency>> >>)
    ELSE [inv EXCEPT !.total_amount_dkk = inv.total_amount_raw]

AnyHigh(flags) == \E i \in 1..Len(flags) : flags[i].severity = "High"

\* mutant: Red needs every flag to be High
assign_status_all(inv) ==
    IF inv.audit_flags # << >>
    THEN [inv EXCEPT !.status =
              IF \A i \in 1..Len(inv.audit_flags) : inv.audit_flags[i].severity = "High"
              THEN "Red" ELSE "Review"]
    ELSE [inv EXCEPT !.status = "Green"]

\* assign_status, and STEP 4 of Auditor.run_audit
assign_status(inv) ==
    IF inv.audit_flags # << >>
    THEN [inv EXCEPT !.status = IF AnyHigh(inv.audit_flags) THEN "Red" ELSE "Review"]
    ELSE [inv EXCEPT !.status = "Green"]

-----------------------------------------------------------------------------
(* Extracted documents *)

D_milk == <<"M", "i", "l", "k">>
D_pant == <<"C", "o", "l", "a", " ", "+", " ", "P", "a", "n", "t">>
Short7 == <<"1", "2", "3", "4", "5", "6", "7">>

\* a line that claims rate 0 for a description no rule exempts
MilkExempt ==
    [description |-> D_milk, total_price |-> 240000, vat_rate |-> 0,
     vat_category |-> "Exempt"]

LineItems ==
    { [description |-> D_milk, total_price |-> 240000, vat_rate |-> 25,
       vat_category |-> "Standard (25%)"],
      MilkExempt,
      [description |-> D_pant, total_price |-> 200000, vat_rate |-> 25,
       vat_category |-> "Standard (25%)"],
      [description |-> D_pant, total_price |-> 200000, vat_rate |-> 0,
       vat_category |-> "Exempt"] }

LineItemLists == UNION { [1..n -> LineItems] : n \in 0..MaxItems }

\* flags the extraction itself may hand over (AuditResult.audit_flags)
OracleFlagLists ==
    { << >>, << AuditFlag("Anomaly", "Low", <<"Handwritten receipt", << >> >>) >> }

\* the documents the oracle is taken to return; exchange_rate_used is 100
\* (1.0) unless the document supplies one
Documents ==
    [vendor_cvr : {None, << >>, Id1, Short7},
     currency : {"DKK", "EUR"},
     prices_include_vat : BOOLEAN,
     total_amount_raw : {440000},
     total_vat_raw : {60000, 110000},
     exchange_rate_used : {100, 746},
     line_items : LineItemLists,
     audit_flags : OracleFlagLists]

\* Invoice(**raw_data): total_amount_dkk starts as the raw total, status as Pending
NewInvoice(doc) ==
    [vendor_cvr |-> doc.vendor_cvr,
     currency |-> doc.currency,
     prices_include_vat |-> doc.prices_include_vat,
     total_amount_raw |-> doc.total_amount_raw,
     total_vat_raw |-> doc.total_vat_raw,
     total_amount_dkk |-> doc.total_amount_raw,
     exchange_rate_used |-> doc.exchange_rate_used,
     line_items |-> doc.line_items,
     audit_flags |-> doc.audit_flags,
     status |-> "Pending"]

-----------------------------------------------------------------------------
(* The audit pipelines *)

Pipelines == {"legacy", "agent"}

Init ==
    /\ now = 0
    /\ cache = << >>
    /\ disk = << >>
    /\ result = NoResult
    /\ lastCall = NoCall
    /\ stored = << >>
    /\ api_data = << >>
    /\ pc = "idle"
    /\ pipeline = "none"
    /\ invoice = << >>
    /\ exc = "None"
    /\ rules = ConfiguredRules
    /\ lookup_file = <<ConfiguredRules>>
    /\ vatCall = NoVatCall
    /\ parked = << >>

\* time passes between audits, a cache lifetime at a step
Wait ==
    /\ pc = "idle"
    /\ now + TTL <= MaxTime
    /\ now' = now + TTL
    /\ UNCHANGED <<cache, disk, result, lastCall, stored, api_data, rules, lookup_file, vatCall, parked>>
    /\ UNCHANGED auditVars

\* run_audit is entered: the Auditor / AuditDeps is built with a new
\* CvrManager, which loads the cache file
StartAudit ==
    /\ pc = "idle"
    /\ \E p \in Pipelines : pipeline' = p
    /\ pc' = "extract"
    /\ cache' = _load_cache
    /\ result' = NoResult
    /\ lastCall' = NoCall
    /\ UNCHANGED <<now, disk, stored, api_data, rules, lookup_file, vatCall, parked, invoice, exc>>

\* the validate_cvr tool, called by the agent while it extracts
ToolValidateCvr ==
    /\ pc = "extract" /\ pipeline = "agent"
    /\ \E response \in Responses : validate_cvr(Id1, response)
    /\ UNCHANGED <<now, api_data, rules, lookup_file, vatCall, parked>>
    /\ UNCHANGED auditVars

\* the extraction call raises: run_audit propagates it
ExtractFail ==
    /\ pc = "extract"
    /\ pc' = "raised"
    /\ exc' = "ExtractionError"
    /\ UNCHANGED <<pipeline, invoice, api_data, rules, lookup_file, vatCall, parked>>
    /\ UNCHANGED regVars

\* Invoice(...) is built from the extracted document; the vendor_cvr validator
\* may reject it.  The agent's AuditResult has no exchange_rate_used field.
Construct ==
    /\ pc = "extract"
    /\ \E doc \in Documents :
        /\ pipeline = "agent" => doc.exchange_rate_used = 100
        /\ IF CvrAccepted(doc.vendor_cvr)
           THEN /\ invoice' = NewInvoice(doc)
                /\ pc' = "vat"
                /\ exc' = exc
           ELSE /\ invoice' = invoice
                /\ pc' = "raised"
                /\ exc' = "ValueError"
    /\ UNCHANGED <<pipeline, api_data, rules, lookup_file, vatCall, parked>>
    /\ UNCHANGED regVars

\* self._audit_vat_logic(invoice)
LegacyVat ==
    /\ pc = "vat" /\ pipeline = "legacy"
    /\ invoice' = _audit_vat_logic(invoice)
    /\ pc' = "compliance"
    /\ UNCHANGED <<pipeline, exc, api_data, rules, lookup_file, vatCall, parked>>
    /\ UNCHANGED regVars

\* mutant: a verdict that carries a warning is flagged like an invalid one
_audit_compliance_warned(pc_next, pc_raised) ==
    IF Truthy(invoice.vendor_cvr)
    THEN \E response \in Responses :
            /\ validate_cvr(invoice.vendor_cvr, response)
            /\ IF ~result'.valid \/ "warning" \in DOMAIN result'
               THEN IF FlagValid("Compliance", Get(result', "risk_level", "High"))
                    THEN /\ invoice' = add_flag(invoice, "Compliance",
                                                Get(result', "risk_level", "High"),
                                                <<"CVR Alert: ", result'.message>>)
                         /\ pc' = pc_next
                         /\ exc' = exc
                    ELSE /\ invoice' = invoice
                         /\ pc' = pc_raised
                         /\ exc' = "ValidationError"
               ELSE /\ invoice' = invoice
                    /\ pc' = pc_next
                    /\ exc' = exc
    ELSE /\ invoice' = add_flag(invoice, "Compliance", "Medium",
                                <<"No CVR number found on receipt.", << >> >>)
         /\ pc' = pc_next
         /\ exc' = exc
         /\ UNCHANGED <<cache, disk, result, lastCall, stored>>

\* Auditor._audit_compliance on the invoice; pc_next is where control is when
\* it returns, pc_raised where it is when it raises
_audit_compliance(pc_next, pc_raised) ==
    IF Truthy(invoice.vendor_cvr)
    THEN \E response \in Responses :
            /\ validate_cvr(invoice.vendor_cvr, response)
            /\ IF ~result'.valid
               THEN IF FlagValid("Compliance", Get(result', "risk_level", "High"))
                    THEN /\ invoice' = add_flag(invoice, "Compliance",
                                                Get(result', "risk_level", "High"),
                                                <<"CVR Alert: ", result'.message>>)
                         /\ pc' = pc_next
                         /\ exc' = exc
                    ELSE /\ invoice' = invoice
                         /\ pc' = pc_raised
                         /\ exc' = "ValidationError"
               ELSE /\ invoice' = invoice
                    /\ pc' = pc_next
                    /\ exc' = exc
    ELSE /\ invoice' = add_flag(invoice, "Compliance", "Medium",
                                <<"No CVR number found on receipt.", << >> >>)
         /\ pc' = pc_next
         /\ exc' = exc
         /\ UNCHANGED <<cache, disk, result, lastCall, stored>>

\* self._audit_compliance(invoice)
LegacyCompliance ==
    /\ pc = "compliance" /\ pipeline = "legacy"
    /\ _audit_compliance("currency", "raised")
    /\ UNCHANGED <<now, pipeline, api_data, rules, lookup_file, vatCall, parked>>

\* self._audit_currency(invoice)
LegacyCurrency ==
    /\ pc = "currency" /\ pipeline = "legacy"
    /\ invoice' = _audit_currency(invoice)
    /\ pc' = "status"
    /\ UNCHANGED <<pipeline, exc, api_data, rules, lookup_file, vatCall, parked>>
    /\ UNCHANGED regVars

\* verify_vat_math(invoice, deps.vat_manager)
AgentVat ==
    /\ pc = "vat" /\ pipeline = "agent"
    /\ invoice' = verify_vat_math(invoice)
    /\ pc' = "currency"
    /\ UNCHANGED <<pipeline, exc, api_data, rules, lookup_file, vatCall, parked>>
    /\ UNCHANGED regVars

\* handle_currency(invoice)
AgentCurrency ==
    /\ pc = "currency" /\ pipeline = "agent"
    /\ invoice' = handle_currency(invoice)
    /\ pc' = "status"
    /\ UNCHANGED <<pipeline, exc, api_data, rules, lookup_file, vatCall, parked>>
    /\ UNCHANGED regVars

\* the final status, after which run_audit returns the invoice
AssignStatus ==
    /\ pc = "status"
    /\ invoice' = assign_status(invoice)
    /\ pc' = "done"
    /\ UNCHANGED <<pipeline, exc, api_data, rules, lookup_file, vatCall, parked>>
    /\ UNCHANGED regVars

\* the caller has the invoice or the exception; the next audit can start
Return ==
    /\ pc \in {"done", "raised"}
    /\ pc' = "idle"
    /\ pipeline' = "none"
    /\ invoice' = << >>
    /\ exc' = "None"
    /\ UNCHANGED <<api_data, rules, lookup_file, vatCall, parked>>
    /\ UNCHANGED regVars

Next ==
    \/ Wait
    \/ StartAudit
    \/ ToolValidateCvr
    \/ ExtractFail
    \/ Construct
    \/ LegacyVat
    \/ LegacyCompliance
    \/ LegacyCurrency
    \/ AgentVat
    \/ AgentCurrency
    \/ AssignStatus
    \/ Return

Spec == Init /\ [][Next]_vars

-----------------------------------------------------------------------------
(* The Registry Client on its own: one client, calls and the clock *)

CvrInputs == {<<" ", "D", "K">> \o Id1 \o <<" ">>, Id2}

InitCvr ==
    /\ now = 0
    /\ cache = << >>
    /\ disk = << >>
    /\ result = NoResult
    /\ lastCall = NoCall
    /\ stored = << >>
    /\ api_data = << >>
    /\ pc = "idle"
    /\ pipeline = "none"
    /\ invoice = << >>
    /\ exc = "None"
    /\ rules = ConfiguredRules
    /\ lookup_file = <<ConfiguredRules>>
    /\ vatCall = NoVatCall
    /\ parked = << >>

Tick ==
    /\ now < MaxTime
    /\ now' = now + 1
    /\ UNCHANGED <<cache, disk, result, lastCall, stored, api_data, rules, lookup_file, vatCall, parked>>
    /\ UNCHANGED auditVars

Validate ==
    \E cvr_number \in CvrInputs, response \in Responses :
        /\ validate_cvr(cvr_number, response)
        /\ UNCHANGED <<now, api_data, rules, lookup_file, vatCall, parked>>
        /\ UNCHANGED auditVars

NewManager ==
    /\ cache # _load_cache
    /\ cache' = _load_cache
    /\ UNCHANGED <<now, disk, result, lastCall, stored, api_data, rules, lookup_file, vatCall, parked>>
    /\ UNCHANGED auditVars

NextCvr == Tick \/ Validate \/ NewManager

SpecCvr == InitCvr /\ [][NextCvr]_vars

-----------------------------------------------------------------------------
(* Risk classification on its own *)

InitRisk ==
    /\ api_data \in Payloads
    /\ result = NoResult
    /\ now = 0
    /\ cache = << >>
    /\ disk = << >>
    /\ lastCall = NoCall
    /\ stored = << >>
    /\ pc = "idle"
    /\ pipeline = "none"
    /\ invoice = << >>
    /\ exc = "None"
    /\ rules = ConfiguredRules
    /\ lookup_file = <<ConfiguredRules>>
    /\ vatCall = NoVatCall
    /\ parked = << >>

AnalyzeRisk ==
    /\ result = NoResult
    /\ result' = _analyze_risk(api_data)
    /\ UNCHANGED <<now, cache, disk, lastCall, stored, api_data, rules, lookup_file, vatCall, parked>>
    /\ UNCHANGED auditVars

NextPayload ==
    /\ result # NoResult
    /\ api_data' \in Payloads
    /\ result' = NoResult
    /\ UNCHANGED <<now, cache, disk, lastCall, stored, rules, lookup_file, vatCall, parked>>
    /\ UNCHANGED auditVars

NextRisk == AnalyzeRisk \/ NextPayload

SpecRisk == InitRisk /\ [][NextRisk]_vars

-----------------------------------------------------------------------------
(* The tax rule table on its own: one VatManager, lookups and added rules *)

D_pant_avis == <<"p", "a", "n", "t", " ", "a", "v", "i", "s">>
Descriptions == {D_milk, D_pant, D_pant_avis}

K_pant == <<"p", "a", "n", "t">>
K_an == <<"a", "n">>
AddedKeywords == {K_pant, D_milk, K_an}
AddedRates == {0, 12}

InitVat ==
    /\ lookup_file \in LookupFiles
    /\ rules = _load_rules(lookup_file)
    /\ vatCall = NoVatCall
    /\ parked = << >>
    /\ now = 0
    /\ cache = << >>
    /\ disk = << >>
    /\ result = NoResult
    /\ lastCall = NoCall
    /\ stored = << >>
    /\ api_data = << >>
    /\ pc = "idle"
    /\ pipeline = "none"
    /\ invoice = << >>
    /\ exc = "None"

LookupItem ==
    \E description \in Descriptions :
        /\ vatCall' = [op |-> "lookup_item", arg |-> description,
                       rule |-> lookup_item(description),
                       added |-> FALSE, saved |-> FALSE]
        /\ UNCHANGED <<rules, lookup_file, api_data, parked>>
        /\ UNCHANGED regVars
        /\ UNCHANGED auditVars

AddCustomRule ==
    \E keyword \in AddedKeywords, vat_rate \in AddedRates :
        /\ Upper(keyword) \in ExistingKeywords \/ Len(rules.exempt_keywords) < MaxRules
        /\ add_custom_rule(keyword, vat_rate, "Exempt")
        /\ UNCHANGED <<api_data, parked>>
        /\ UNCHANGED regVars
        /\ UNCHANGED auditVars

NextVat == LookupItem \/ AddCustomRule

SpecVat == InitVat /\ [][NextVat]_vars

-----------------------------------------------------------------------------
(* The reconciliation steps on their own: an Invoice is built from a        *)
(* document and steps are applied to it, in any order and repeatedly.  Here *)
(* pc is the list of the steps applied so far.                              *)

IdSuperscript == <<"1", "2", "3", "4", "5", "6", "7", "²">>
IdWithLetter == <<"1", "2", "3", "4", "5", "6", "7", "A">>
IdLong == <<"D", "K">> \o Id1

\* LineItem.vat_rate is any float: -1.0 is accepted
StepLineItems ==
    (LineItems \ {MilkExempt}) \cup
    { [description |-> D_milk, total_price |-> 240000, vat_rate |-> -100,
       vat_category |-> "Standard (25%)"] }

StepDocuments ==
    [vendor_cvr : {None, << >>, Id1, Short7, IdLong, IdWithLetter, IdSuperscript},
     currency : {"DKK", "EUR"},
     prices_include_vat : BOOLEAN,
     total_amount_raw : {440000},
     total_vat_raw : {500, 501, 59499, 59500, 60000},
     exchange_rate_used : {746},
     line_items : UNION { [1..n -> StepLineItems] : n \in 0..MaxItems },
     audit_flags : {<< >>}]

InitSteps ==
    /\ pc = << >>
    /\ invoice = << >>
    /\ exc = "None"
    /\ pipeline = "none"
    /\ now = 0
    /\ cache = << >>
    /\ disk = << >>
    /\ result = NoResult
    /\ lastCall = NoCall
    /\ stored = << >>
    /\ api_data = << >>
    /\ rules = ConfiguredRules
    /\ lookup_file = <<ConfiguredRules>>
    /\ vatCall = NoVatCall
    /\ parked = << >>

\* Invoice(...) from a document
StepConstruct ==
    /\ DOMAIN invoice = {} /\ exc = "None"
    /\ \E doc \in StepDocuments :
        IF CvrAccepted(doc.vendor_cvr)
        THEN invoice' = NewInvoice(doc) /\ exc' = exc
        ELSE invoice' = invoice /\ exc' = "ValueError"
    /\ UNCHANGED <<pc, pipeline, api_data, rules, lookup_file, vatCall, parked>>
    /\ UNCHANGED regVars

\* there is an Invoice, no step has raised, and one more step fits the bound
Applicable == exc = "None" /\ DOMAIN invoice # {} /\ Len(pc) < MaxSteps

\* verify_vat_math(invoice, vat_manager) of processing/post_audit.py
StepVat ==
    /\ Applicable
    /\ invoice' = verify_vat_math_post_audit(invoice)
    /\ exc' = IF VatRaises(invoice, TRUE) THEN "ZeroDivisionError" ELSE exc
    /\ pc' = Append(pc, "vat")
    /\ UNCHANGED <<pipeline, api_data, rules, lookup_file, vatCall, parked>>
    /\ UNCHANGED regVars

\* _audit_compliance(invoice)
StepCompliance ==
    /\ Applicable
    /\ _audit_compliance(Append(pc, "compliance"), Append(pc, "compliance"))
    /\ UNCHANGED <<now, pipeline, api_data, rules, lookup_file, vatCall, parked>>

\* handle_currency(invoice)
StepCurrency ==
    /\ Applicable
    /\ invoice' = handle_currency(invoice)
    /\ pc' = Append(pc, "currency")
    /\ UNCHANGED <<pipeline, exc, api_data, rules, lookup_file, vatCall, parked>>
    /\ UNCHANGED regVars

\* assign_status(invoice)
StepStatus ==
    /\ Applicable
    /\ invoice' = assign_status(invoice)
    /\ pc' = Append(pc, "status")
    /\ UNCHANGED <<pipeline, exc, api_data, rules, lookup_file, vatCall, parked>>
    /\ UNCHANGED regVars

NextSteps == StepConstruct \/ StepVat \/ StepCompliance \/ StepCurrency \/ StepStatus

SpecSteps == InitSteps /\ [][NextSteps]_vars

-----------------------------------------------------------------------------
(* Two audits at once: each run_audit builds its own CvrManager from the    *)
(* cache file; cache is the manager of the audit that runs now, parked the  *)
(* manager of the other one, and control passes at an await.                *)

InitConc ==
    /\ now = 0
    /\ disk = << >>
    /\ cache = _load_cache
    /\ parked = _load_cache
    /\ result = NoResult
    /\ lastCall = NoCall
    /\ stored = << >>
    /\ api_data = << >>
    /\ pc = "idle"
    /\ pipeline = "none"
    /\ invoice = << >>
    /\ exc = "None"
    /\ rules = ConfiguredRules
    /\ lookup_file = <<ConfiguredRules>>
    /\ vatCall = NoVatCall

\* the running audit calls validate_cvr on its manager
ConcValidate ==
    \E cvr_number \in CvrInputs, response \in Responses :
        /\ validate_cvr(cvr_number, response)
        /\ UNCHANGED <<now, api_data, rules, lookup_file, vatCall, parked>>
        /\ UNCHANGED auditVars

\* the running audit awaits and the other audit runs
Yield ==
    /\ cache # parked
    /\ cache' = parked
    /\ parked' = cache
    /\ UNCHANGED <<now, disk, result, lastCall, stored, api_data, rules, lookup_file, vatCall>>
    /\ UNCHANGED auditVars

\* the running audit ends and a new one starts: CvrManager() loads the file
ConcNewAudit ==
    /\ cache # _load_cache
    /\ cache' = _load_cache
    /\ UNCHANGED <<now, disk, result, lastCall, stored, api_data, rules, lookup_file, vatCall,
                   parked>>
    /\ UNCHANGED auditVars

NextConc == ConcValidate \/ Yield \/ ConcNewAudit

SpecConc == InitConc /\ [][NextConc]_vars

-----------------------------------------------------------------------------
(* Properties of the audit *)

IsCompliance(f) == f.category = "Compliance"
ComplianceFlags(inv) == SelectSeq(inv.audit_flags, IsCompliance)

\* the compliance step of Auditor.run_audit has run on the invoice
ComplianceRan ==
    /\ pipeline = "legacy"
    /\ \/ pc \in {"currency", "status", "done"}
       \/ pc = "raised" /\ exc = "ValidationError"

\* C1: a returned Invoice is never Pending, and its status is decided by its
\* flag list: Green iff empty, Red iff some flag is High, Review iff non-empty
\* with no High flag.
C1_StatusFromFlags ==
    pc = "done" =>
        LET flags == invoice.audit_flags
            high == \E i \in 1..Len(flags) : flags[i].severity = "High"
        IN  /\ invoice.status \in {"Green", "Red", "Review"}
            /\ invoice.status = "Green" <=> flags = << >>
            /\ invoice.status = "Red" <=> high
            /\ invoice.status = "Review" <=> (flags # << >> /\ ~high)

\* an audit returned a Red invoice that also carries a flag below High
C1_Witness ==
    /\ pc = "done"
    /\ invoice.status = "Red"
    /\ \E i \in 1..Len(invoice.audit_flags) : invoice.audit_flags[i].severity # "High"

\* C2: with a vendor id on the invoice, a transport failure of the registry
\* with no cache entry does not abort the audit: the report is valid = false /
\* Unknown, one Compliance flag is appended and the audit goes on.
C2_TransportFailureCompletes ==
    (/\ ComplianceRan
     /\ Truthy(invoice.vendor_cvr)
     /\ lastCall.outcome = "exception"
     /\ ~lastCall.had) =>
        /\ result.valid = FALSE
        /\ result.risk_level = "Unknown"
        /\ pc # "raised"
        /\ Len(ComplianceFlags(invoice)) = 1

\* C3: with a vendor id on the invoice and an invalid verdict, compliance
\* verification appends exactly one Compliance flag, whose severity is the
\* verdict's risk_level (High if absent) and whose message embeds the
\* registry's message -- for every invalid verdict, the Critical ones included.
C3_InvalidVerdictFlagged ==
    (/\ ComplianceRan
     /\ Truthy(invoice.vendor_cvr)
     /\ lastCall.outcome \in {"200", "hit"}
     /\ ~result.valid) =>
        /\ pc # "raised"
        /\ Len(ComplianceFlags(invoice)) = 1
        /\ ComplianceFlags(invoice)[1].severity = Get(result, "risk_level", "High")
        /\ ComplianceFlags(invoice)[1].message = <<"CVR Alert: ", result.message>>

\* C4: a returned Invoice with no vendor id carries exactly one Compliance
\* flag, of severity Medium, and the audit steps made no Registry Client call.
C4_MissingIdFlagged ==
    (pc = "done" /\ ~Truthy(invoice.vendor_cvr)) =>
        /\ Len(ComplianceFlags(invoice)) = 1
        /\ ComplianceFlags(invoice)[1].severity = "Medium"
        /\ pipeline = "legacy" => lastCall = NoCall

-----------------------------------------------------------------------------
(* Properties of the Registry Client *)

\* a step in which validate_cvr ran and left a new call record
ValidateStep == lastCall' # lastCall

VerdictFields == {"valid", "risk_level", "message", "company_name"}

\* after the step, the cache holds an entry for k that is younger than the TTL
ServedFromCacheAfter(k) ==
    /\ k \in DOMAIN cache'
    /\ now' - cache'[k].last_checked[2] < TTL

\* C5: a validate(X) that finds an entry for X younger than the TTL returns
\* exactly the verdict the latest status 200 answer for X stored, and makes no
\* network call, whatever calls happened in between.
C5_CacheRoundTrip ==
    (lastCall.had /\ lastCall.age < TTL) =>
        /\ lastCall.key \in DOMAIN stored
        /\ result = stored[lastCall.key]
        /\ lastCall.net = 0

\* a fresh entry was read back after other calls had run in between
C5_Witness ==
    /\ lastCall.had /\ lastCall.age > 0 /\ lastCall.age < TTL
    /\ lastCall.outcome = "hit"
    /\ result = stored[lastCall.key]
    /\ Cardinality(DOMAIN cache) = 2
    /\ \E k \in DOMAIN cache : "warning" \in DOMAIN cache[k].data

\* C6: a validate(X) that finds an entry of age >= TTL makes exactly one
\* network call; on status 200 the entry becomes the new verdict with the
\* current timestamp, so that X is served from the cache again.
C6_CacheExpiry ==
    [][ (ValidateStep /\ lastCall'.had /\ lastCall'.age >= TTL) =>
            /\ lastCall'.net = 1
            /\ lastCall'.outcome = "200" =>
                /\ cache'[lastCall'.key] =
                       [last_checked |-> IsoFormat(now), data |-> result']
                /\ "warning" \notin DOMAIN result'
                /\ disk' = cache'
                /\ ServedFromCacheAfter(lastCall'.key) ]_vars

\* an entry of age exactly TTL was refreshed by a status 200 answer
C6_Witness ==
    /\ lastCall.had /\ lastCall.age = TTL
    /\ lastCall.outcome = "200" /\ lastCall.net = 1
    /\ cache[lastCall.key].last_checked = IsoFormat(now)

\* C7: when the network call raises, the result is the stale entry's verdict
\* (valid, risk_level, message, company_name) plus a non-empty warning if an
\* entry exists, and valid = false / risk_level = Unknown if none exists.
C7_DegradedMode ==
    [][ (ValidateStep /\ lastCall'.outcome = "exception") =>
            IF lastCall'.had
            THEN /\ \A f \in VerdictFields :
                        /\ f \in DOMAIN result'
                        /\ result'[f] = cache[lastCall'.key].data[f]
                 /\ "warning" \in DOMAIN result'
                 /\ result'.warning # << >>
                 /\ result'.warning[1] # ""
            ELSE /\ result'.valid = FALSE
                 /\ result'.risk_level = "Unknown" ]_vars

\* a transport failure was answered from a stale entry
C7_Witness ==
    /\ lastCall.outcome = "exception" /\ lastCall.had /\ lastCall.age >= TTL
    /\ "warning" \in DOMAIN result
    /\ result.valid

\* C8: on status 404 the result is invalid / High "not found", the cache and
\* the cache file are unchanged, and X is still not served from the cache.
C8_NotFoundNotCached ==
    [][ (ValidateStep /\ lastCall'.outcome = "404") =>
            /\ result' = NotFoundReport
            /\ result'.valid = FALSE /\ result'.risk_level = "High"
            /\ cache' = cache
            /\ disk' = disk
            /\ ~ServedFromCacheAfter(lastCall'.key) ]_vars

\* a 404 was answered while a stale entry for the identifier existed
C8_Witness ==
    /\ lastCall.outcome = "404" /\ lastCall.had
    /\ result = NotFoundReport
    /\ lastCall.key \in DOMAIN cache

\* C9: a status that is neither 200 nor 404 is handled like a transport
\* failure: the stale verdict with a warning if an entry exists, and
\* valid = false / risk_level = Unknown otherwise.
C9_OtherStatusIsFailure ==
    lastCall.outcome = "other" =>
        IF lastCall.had
        THEN "warning" \in DOMAIN result
        ELSE result.valid = FALSE /\ result.risk_level = "Unknown"

-----------------------------------------------------------------------------
(* Properties of risk classification *)

\* tok occurs in s in some letter case
ContainsAnyCase(tok, s) ==
    \E i \in 1..(Len(s) - Len(tok) + 1) :
        \A j \in 1..Len(tok) :
            \/ s[i + j - 1] = tok[j]
            \/ tok[j] \in DOMAIN ToUpper /\ s[i + j - 1] = ToUpper[tok[j]]

\* tok occurs in a key or a string value of the payload
TokenIn(tok, d) ==
    \E n \in 1..Len(d) :
        \/ ContainsAnyCase(tok, d[n][1])
        \/ d[n][2] # None /\ ContainsAnyCase(tok, d[n][2])

HasEndDate(d) ==
    \E n \in 1..Len(d) : d[n][1] = K_enddate /\ d[n][2] # None /\ Len(d[n][2]) > 0

\* C10: the verdict follows the precedence end-date (invalid / High), then
\* "konkurs" in any letter case (invalid / Critical, bankruptcy message), then
\* "tvangsopløsning" (invalid / Critical), then valid / Low.
C10_RiskPrecedence ==
    result # NoResult =>
        IF HasEndDate(api_data)
        THEN /\ ~result.valid /\ result.risk_level = "High"
             /\ result.message[1] = "Company Dissolved (Ophørt) on "
        ELSE IF TokenIn(S_konkurs, api_data)
        THEN /\ ~result.valid /\ result.risk_level = "Critical"
             /\ result.message = MsgBankrupt
        ELSE IF TokenIn(S_tvangsoploesning, api_data)
        THEN /\ ~result.valid /\ result.risk_level = "Critical"
             /\ result.message = MsgForced
        ELSE result.valid /\ result.risk_level = "Low"

\* a payload with an end-date and both tokens was classified High
C10_Witness ==
    /\ result # NoResult
    /\ HasEndDate(api_data)
    /\ TokenIn(S_konkurs, api_data) /\ TokenIn(S_tvangsoploesning, api_data)
    /\ result.risk_level = "High"

-----------------------------------------------------------------------------
(* Properties of the tax rule table *)

Table == rules.exempt_keywords

\* rule i of the table matches the description when letter case is ignored
\* on both sides
MatchesAnyCase(i, description) ==
    Contains(Upper(Table[i].keyword), Upper(description))

\* C11: after a lookup of a description that contains the keyword of some
\* rule of the table in any letter case, whatever the case of the keyword in
\* the table, the result is the rate and category of a rule that matches and
\* not the default.
C11_LookupCaseInsensitive ==
    vatCall.op = "lookup_item" =>
        LET matching == { i \in 1..Len(Table) : MatchesAnyCase(i, vatCall.arg) }
        IN  matching # {} =>
                \E i \in matching :
                    /\ vatCall.rule.vat_rate = Table[i].vat_rate
                    /\ vatCall.rule.category = Table[i].category

\* the table indexes whose stored keyword is in the upper-cased description
MatchIndexes(table, description) ==
    { i \in 1..Len(table) : Contains(table[i].keyword, Upper(description)) }

\* what a first-match-wins lookup over table has to return
EarliestRule(table, defaults, description) ==
    LET idx == MatchIndexes(table, description)
    IN  IF idx # {}
        THEN LET first == CHOOSE i \in idx : \A j \in idx : i <= j
             IN  [vat_rate |-> table[first].vat_rate,
                  category |-> table[first].category,
                  reason |-> table[first].reason]
        ELSE [vat_rate |-> IF "vat_rate" \in DOMAIN defaults
                           THEN defaults.vat_rate ELSE 25,
              category |-> IF "category" \in DOMAIN defaults
                           THEN defaults.category ELSE "Standard (25%)",
              reason |-> "Standard Rate"]

\* C12: every lookup returns the (rate, category, rationale) of the earliest
\* rule whose keyword is in the upper-cased description, or the configured
\* default (25 / 'Standard (25%)' where not configured) with rationale
\* 'Standard Rate' when none is; and an added rule leaves the result of every
\* description that a rule already matched as it was.
C12_FirstMatchWins ==
    [][/\ vatCall'.op = "lookup_item" =>
            vatCall'.rule = EarliestRule(Table, rules.standard_defaults, vatCall'.arg)
       /\ vatCall'.op = "add_custom_rule" =>
            \A d \in Descriptions :
                MatchIndexes(Table, d) # {} => lookup_item(d)' = lookup_item(d)]_vars

\* a lookup answered by the earlier of two matching rules, the later one added
\* by add_custom_rule
C12_Witness ==
    /\ vatCall.op = "lookup_item"
    /\ \E i, j \in 1..Len(Table) :
        /\ i < j
        /\ {i, j} \subseteq MatchIndexes(Table, vatCall.arg)
        /\ i = CHOOSE k \in MatchIndexes(Table, vatCall.arg) :
                   \A l \in MatchIndexes(Table, vatCall.arg) : k <= l
        /\ Table[j].reason = "User Custom Rule"
        /\ Table[i].vat_rate # Table[j].vat_rate
        /\ vatCall.rule.vat_rate = Table[i].vat_rate
        /\ vatCall.rule.reason = Table[i].reason

\* C13: an add whose upper-cased keyword is in the table, however the keyword
\* of the table is cased, returns false, leaves the table as it is and writes
\* no file; any other add appends one rule with rationale 'User Custom Rule',
\* saves the table and returns true.
C13_AddRuleIdempotent ==
    [][(vatCall'.op = "add_custom_rule" /\ vatCall' # vatCall) =>
          LET kw == Upper(vatCall'.arg)
              collides == \E i \in 1..Len(Table) : Upper(Table[i].keyword) = kw
          IN  IF collides
              THEN /\ ~vatCall'.added
                   /\ ~vatCall'.saved
                   /\ rules' = rules
                   /\ lookup_file' = lookup_file
              ELSE /\ vatCall'.added
                   /\ vatCall'.saved
                   /\ rules'.exempt_keywords =
                          Append(Table, [keyword |-> kw,
                                         vat_rate |-> vatCall'.rule.vat_rate,
                                         category |-> vatCall'.rule.category,
                                         reason |-> "User Custom Rule"])
                   /\ lookup_file' = <<rules'>>]_vars

-----------------------------------------------------------------------------
(* Properties of the reconciliation steps *)

IsMathError(f) == f.category = "Data Integrity" /\ f.severity = "High"
IsRateMismatch(f) == f.category = "Data Integrity" /\ f.severity = "Medium"
IsForex(f) == f.category = "Forex"

\* the flags a step appended
Appended(before, after) ==
    SubSeq(after.audit_flags, Len(before.audit_flags) + 1, Len(after.audit_flags))

\* the sum of the lines' tax components: total * rate / (1 + rate) of each
\* line where prices include the tax, total * rate where they do not
RECURSIVE SumTax(_, _, _)
SumTax(items, i, inclusive) ==
    IF i > Len(items) THEN 0
    ELSE (IF inclusive
          THEN (items[i].total_price * items[i].vat_rate) \div (100 + items[i].vat_rate)
          ELSE (items[i].total_price * items[i].vat_rate) \div 100)
         + SumTax(items, i + 1, inclusive)

TaxSumByMode(inv) == SumTax(inv.line_items, 1, inv.prices_include_vat)

\* the number of Data Integrity/High flags a step from before to after appended
MathErrorsAppended(before, after) == Len(SelectSeq(Appended(before, after), IsMathError))

C15_TaxComponentByMode ==
    [][(pc = "vat" /\ pc' \in {"compliance", "currency"}) =>
          MathErrorsAppended(invoice, invoice') =
              IF Abs(TaxSumByMode(invoice) - invoice.total_vat_raw) > VatTolerance
              THEN 1 ELSE 0]_vars

AsciiDigits == {"0", "1", "2", "3", "4", "5", "6", "7", "8", "9"}

\* C16: every Invoice that was constructed has a vendor id that is absent or
\* is exactly 8 ASCII digits.
C16_VendorIdEightAsciiDigits ==
    DOMAIN invoice # {} =>
        \/ invoice.vendor_cvr = None
        \/ /\ Len(invoice.vendor_cvr) = 8
           /\ \A i \in 1..8 : invoice.vendor_cvr[i] \in AsciiDigits

\* the lines whose claimed rate is not the rule table's rate for the description
Mismatching(inv) ==
    { i \in 1..Len(inv.line_items) :
        inv.line_items[i].vat_rate # lookup_item(inv.line_items[i].description).vat_rate }

\* C17: the tax verification of an audit appends one Data Integrity/Medium flag
\* for each line whose claimed rate differs from the rule table's rate and for
\* no other line, and no step of the audit changes a field of the Invoice or
\* of a line item other than the flag list, the normalized total and the status.
C17_OnlyFlags ==
    [][(pc \in {"vat", "compliance", "currency", "status"} /\ pc' # pc) =>
          /\ DOMAIN invoice' = DOMAIN invoice
          /\ \A f \in DOMAIN invoice \ {"audit_flags", "total_amount_dkk", "status"} :
                invoice'[f] = invoice[f]
          /\ pc = "vat" =>
                LET raised == SelectSeq(Appended(invoice, invoice'), IsRateMismatch)
                IN  /\ Len(raised) = Cardinality(Mismatching(invoice))
                    /\ \A i \in Mismatching(invoice) :
                          \E k \in 1..Len(raised) :
                              /\ raised[k].message[2][1] = invoice.line_items[i].description
                              /\ raised[k].message[2][2] = invoice.line_items[i].vat_rate]_vars

\* a finished audit of two lines, the first claiming a rate that is not the
\* rule's and still claiming it, the second claiming the rule's rate, with one
\* Data Integrity/Medium flag
C17_Witness ==
    /\ pc = "done"
    /\ Len(invoice.line_items) = 2
    /\ Mismatching(invoice) = {1}
    /\ invoice.line_items[1].vat_rate = 25
    /\ Len(SelectSeq(invoice.audit_flags, IsRateMismatch)) = 1

\* C18: a step applied to an Invoice right after the same step returned leaves
\* the Invoice, flag list included, as the first application left it.
C18_StepsIdempotent ==
    [][(/\ exc = "None" /\ exc' = "None"
        /\ pc # << >>
        /\ Len(pc') = Len(pc) + 1
        /\ pc'[Len(pc')] = pc[Len(pc)]) =>
          invoice' = invoice]_vars

\* C19: the tax verification step returns on every constructed Invoice,
\* whatever rates and totals its lines claim and whether prices include the
\* tax or not: it raises nothing.  (That the compliance step returns for every
\* registry verdict is what C2 and C3 are about.)
C19_FindingsNeverRaise ==
    (DOMAIN invoice # {} /\ pc # << >> /\ pc[Len(pc)] = "vat") => exc = "None"

\* C20: the currency step of an audit on an invoice not in DKK sets the
\* normalized total to raw total * exchange rate, the rate being 1.0 where the
\* extraction has no field for it, and appends one Forex/Low flag and nothing
\* else; on a DKK invoice it sets the normalized total to the raw total and
\* appends nothing; and a finished audit of an invoice not in DKK is not Green.
C20_CurrencyNormalization ==
    [][/\ (pc = "currency" /\ pc' = "status") =>
            IF invoice.currency # "DKK"
            THEN /\ pipeline = "agent" => invoice.exchange_rate_used = 100
                 /\ invoice'.total_amount_dkk =
                        (invoice.total_amount_raw * invoice.exchange_rate_used) \div 100
                 /\ Len(Appended(invoice, invoice')) = 1
                 /\ IsForex(Appended(invoice, invoice')[1])
                 /\ Appended(invoice, invoice')[1].severity = "Low"
            ELSE /\ invoice'.total_amount_dkk = invoice.total_amount_raw
                 /\ Appended(invoice, invoice') = << >>
       /\ (pc' = "done" /\ invoice'.currency # "DKK") =>
            /\ invoice'.status # "Green"
            /\ Len(SelectSeq(invoice'.audit_flags, IsForex)) = 1]_vars

\* a finished audit of a EUR invoice at rate 7.46 whose only flag is the
\* Forex/Low flag: converted total, status Review
C20_Witness ==
    /\ pc = "done"
    /\ invoice.currency = "EUR"
    /\ invoice.exchange_rate_used = 746
    /\ invoice.total_amount_dkk = (invoice.total_amount_raw * 746) \div 100
    /\ Len(invoice.audit_flags) = 1
    /\ IsForex(invoice.audit_flags[1])
    /\ invoice.status = "Review"

\* the step that raises a flag: 1 the per-line check, 2 the aggregate check,
\* 3 compliance, 4 currency; 0 for a flag the extraction handed over
Rank(f) ==
    IF IsRateMismatch(f) THEN 1
    ELSE IF IsMathError(f) THEN 2
    ELSE IF f.category = "Compliance" THEN 3
    ELSE IF IsForex(f) THEN 4
    ELSE 0

IsEngineFlag(f) == Rank(f) > 0

InStepOrder(inv) ==
    LET fs == SelectSeq(inv.audit_flags, IsEngineFlag)
        ms == SelectSeq(inv.audit_flags, IsRateMismatch)
        mism == Mismatching(inv)
    IN  /\ \A i, j \in 1..Len(fs) : i < j => Rank(fs[i]) <= Rank(fs[j])
        /\ \A r \in {2, 3, 4} : Cardinality({ i \in 1..Len(fs) : Rank(fs[i]) = r }) <= 1
        /\ Len(ms) = Cardinality(mism)
        /\ \A i \in mism :
              LET k == Cardinality({ j \in mism : j <= i })
              IN  /\ ms[k].message[2][1] = inv.line_items[i].description
                  /\ ms[k].message[2][2] = inv.line_items[i].vat_rate

-----------------------------------------------------------------------------
(* Properties of concurrent audits *)

\* C21: an identifier that has an entry in the cache file has one in every
\* later content of the file, whichever audit writes the file next and for
\* whichever identifier.
C21_EntriesNeverDeleted ==
    [][\A k \in DOMAIN disk : k \in DOMAIN disk']_vars

-----------------------------------------------------------------------------
(* Properties of the registry cache under degraded mode *)

\* C23: a validate_cvr call that finds a stale entry and whose request fails
\* leaves the manager's cache as it was, and no entry of the cache file ever
\* carries a warning.
C23_DegradedLeavesCache ==
    [][/\ (lastCall' # lastCall /\ lastCall'.outcome = "exception" /\ lastCall'.had) =>
            cache' = cache
       /\ \A k \in DOMAIN disk' : "warning" \notin DOMAIN disk'[k].data]_vars

-----------------------------------------------------------------------------
(* Properties of compliance verification on a valid verdict *)

\* C24: the compliance step of an audit on an invoice with a vendor id, when
\* the registry client returns a verdict with valid true, returns with the
\* Invoice as it was, flag list included, also when the verdict is the stale
\* cached one that degraded mode returns with a warning.
C24_ValidVerdictNoFlag ==
    [][(/\ pc = "compliance" /\ pc' # pc
        /\ Truthy(invoice.vendor_cvr)
        /\ result'.valid) =>
          /\ invoice' = invoice
          /\ pc' = "currency"
          /\ exc' = "None"]_vars

\* a finished audit that is Green although its registry check failed and fell
\* back to the stale entry, whose verdict carries the warning
C24_Witness ==
    /\ pc = "done"
    /\ pipeline = "legacy"
    /\ Truthy(invoice.vendor_cvr)
    /\ lastCall.outcome = "exception" /\ lastCall.had
    /\ result.valid
    /\ "warning" \in DOMAIN result
    /\ invoice.audit_flags = << >>
    /\ invoice.status = "Green"

====
